---- MODULE Spec2Model ----
(***************************************************************************)
(* Model of the gpu-raymarcher frame core: the pending list of CSG roots,  *)
(* its flattening into GPU records (ShapesGPU::add / shapes_to_gpu), the   *)
(* submission commands (cmd::render::render_shape / render_shapes) and the *)
(* per-frame orchestration (RenderContext::render / execute_raymarch)      *)
(* driven by the winit event loop (window::run_window).                    *)
(*                                                                         *)
(* f32 / Vec3 values are modelled by small integers and integer triples;   *)
(* the encoder only copies them, it never computes with them.              *)
(***************************************************************************)
EXTENDS Integers, Sequences, FiniteSets, Bags, TLC

(***************************************************************************)
(* Bounds of the exploration.                                              *)
(***************************************************************************)
\* commands the update callbacks issue in one run
MaxCalls == 2
\* frames (update + redraw) the event loop runs
MaxFrames == 2
\* nodes of the shape trees fed to the encoder in SpecEncode
MaxNodes == 5
\* roots of the pending lists fed to the encoder in SpecEncode
MaxRoots == 3
\* input and window events delivered in one run
MaxEvents == 3

(***************************************************************************)
(* Program constants.                                                      *)
(***************************************************************************)
MAX_SHAPE_AMOUNT == 256

\* render.rs: size of the compute output texture and of the dispatch
WIDTH == 1280

HEIGHT == 720

(***************************************************************************)
(* enum Shape (render.rs 45-71).  Vec3 is a triple.                        *)
(***************************************************************************)
Vec3ZERO == <<0, 0, 0>>

Sphere(pos, radius) == [kind |-> "Sphere", pos |-> pos, radius |-> radius]

BoxExact(pos, b) == [kind |-> "BoxExact", pos |-> pos, b |-> b]

Plane(pos, normal) == [kind |-> "Plane", pos |-> pos, normal |-> normal]

Union(shape1, shape2) == [kind |-> "Union", shape1 |-> shape1, shape2 |-> shape2]

Intersection(shape1, shape2) ==
    [kind |-> "Intersection", shape1 |-> shape1, shape2 |-> shape2]

Subtraction(shape1, shape2) ==
    [kind |-> "Subtraction", shape1 |-> shape1, shape2 |-> shape2]

CompositeKinds == {"Union", "Intersection", "Subtraction"}

Composite(kind, shape1, shape2) ==
    [kind |-> kind, shape1 |-> shape1, shape2 |-> shape2]

(***************************************************************************)
(* struct ShapeGPU and its derived Default (render.rs 81-87).              *)
(***************************************************************************)
ShapeGPUDefault == [pos |-> Vec3ZERO, id |-> 0, v1 |-> Vec3ZERO, f1 |-> 0]

(***************************************************************************)
(* add_record with the Sphere arm storing the radius in v1.x, not in f1.   *)
(***************************************************************************)
add_record_radius_in_v1(shape) ==
    CASE shape.kind = "Union" -> [ShapeGPUDefault EXCEPT !.id = 0]
      [] shape.kind = "Intersection" -> [ShapeGPUDefault EXCEPT !.id = 1]
      [] shape.kind = "Subtraction" -> [ShapeGPUDefault EXCEPT !.id = 2]
      [] shape.kind = "Sphere" ->
            [ShapeGPUDefault EXCEPT !.id = 6, !.pos = shape.pos,
                                    !.v1 = <<shape.radius, 0, 0>>]
      [] shape.kind = "BoxExact" ->
            [ShapeGPUDefault EXCEPT !.pos = shape.pos, !.id = 7, !.v1 = shape.b]
      [] shape.kind = "Plane" ->
            [ShapeGPUDefault EXCEPT !.pos = shape.pos, !.id = 8, !.v1 = shape.normal]

(***************************************************************************)
(* The record one match arm of ShapesGPU::add pushes for the node itself.  *)
(***************************************************************************)
\* an encoding in which Subtraction shares the opcode of Union
add_record_shared_opcode(shape) ==
    CASE shape.kind = "Union" -> [ShapeGPUDefault EXCEPT !.id = 0]
      [] shape.kind = "Intersection" -> [ShapeGPUDefault EXCEPT !.id = 1]
      [] shape.kind = "Subtraction" -> [ShapeGPUDefault EXCEPT !.id = 0]
      [] shape.kind = "Sphere" ->
            [ShapeGPUDefault EXCEPT !.id = 6, !.pos = shape.pos, !.f1 = shape.radius]
      [] shape.kind = "BoxExact" ->
            [ShapeGPUDefault EXCEPT !.pos = shape.pos, !.id = 7, !.v1 = shape.b]
      [] shape.kind = "Plane" ->
            [ShapeGPUDefault EXCEPT !.pos = shape.pos, !.id = 8, !.v1 = shape.normal]

add_record(shape) ==
    CASE shape.kind = "Union" -> [ShapeGPUDefault EXCEPT !.id = 0]
      [] shape.kind = "Intersection" -> [ShapeGPUDefault EXCEPT !.id = 1]
      [] shape.kind = "Subtraction" -> [ShapeGPUDefault EXCEPT !.id = 2]
      [] shape.kind = "Sphere" ->
            [ShapeGPUDefault EXCEPT !.id = 6, !.pos = shape.pos, !.f1 = shape.radius]
      [] shape.kind = "BoxExact" ->
            [ShapeGPUDefault EXCEPT !.pos = shape.pos, !.id = 7, !.v1 = shape.b]
      [] shape.kind = "Plane" ->
            [ShapeGPUDefault EXCEPT !.pos = shape.pos, !.id = 8, !.v1 = shape.normal]

(***************************************************************************)
(* ShapesGPU::add: self is the vector built so far; a composite pushes its *)
(* own record, then adds shape1, then shape2 into the same vector.         *)
(***************************************************************************)
RECURSIVE add(_, _)

\* add with a composite arm that forgets self.add(shape2)
RECURSIVE add_left_only(_, _)
add_left_only(self, shape) ==
    IF shape.kind \in CompositeKinds
    THEN add_left_only(Append(self, add_record(shape)), shape.shape1)
    ELSE Append(self, add_record(shape))

\* add with a composite arm that pushes its own record after its children
RECURSIVE add_postorder(_, _)
add_postorder(self, shape) ==
    IF shape.kind \in CompositeKinds
    THEN Append(add_postorder(add_postorder(self, shape.shape1), shape.shape2),
                add_record(shape))
    ELSE Append(self, add_record(shape))

add(self, shape) ==
    IF shape.kind \in CompositeKinds
    THEN add(add(Append(self, add_record(shape)), shape.shape1), shape.shape2)
    ELSE Append(self, add_record(shape))

(***************************************************************************)
(* shapes_to_gpu: a fresh vector, add of every root in iteration order.    *)
(* shapes_to_gpu_iter is the for loop over shapes[lo..hi], left to right   *)
(* (the range is split in halves, and the vector built so far is          *)
(* evaluated before the second half starts, only to keep the evaluation    *)
(* shallow: Len(first) >= 0 always holds).                                 *)
(***************************************************************************)
RECURSIVE shapes_to_gpu_iter(_, _, _, _)
shapes_to_gpu_iter(gpu_shapes, shapes, lo, hi) ==
    IF lo > hi THEN gpu_shapes
    ELSE IF lo = hi THEN add(gpu_shapes, shapes[lo])
    ELSE LET mid == (lo + hi) \div 2
             first == shapes_to_gpu_iter(gpu_shapes, shapes, lo, mid)
         IN  IF Len(first) >= 0
             THEN shapes_to_gpu_iter(first, shapes, mid + 1, hi)
             ELSE first

\* shapes_to_gpu iterating the roots last to first
shapes_to_gpu_reversed(shapes) ==
    shapes_to_gpu_iter(<<>>, [i \in 1..Len(shapes) |-> shapes[Len(shapes) + 1 - i]],
                       1, Len(shapes))

shapes_to_gpu(shapes) == shapes_to_gpu_iter(<<>>, shapes, 1, Len(shapes))

(***************************************************************************)
(* cmd::render::render_shape.  The capacity test is a debug_assert! on the *)
(* number of pending ROOTS (Vec::len) before the push; it is compiled only *)
(* when debug_assertions is on.  A failed assertion panics: the push does  *)
(* not happen.                                                             *)
(***************************************************************************)
render_shape_assert(dbg, shapes) ==
    dbg => Len(shapes) < MAX_SHAPE_AMOUNT

render_shape(dbg, shapes, shape) ==
    IF render_shape_assert(dbg, shapes)
    THEN [panicked |-> FALSE, shapes |-> Append(shapes, shape)]
    ELSE [panicked |-> TRUE, shapes |-> shapes]

(***************************************************************************)
(* cmd::render::render_shapes: the for loop over list[lo..hi], left to     *)
(* right; a panic of render_shape unwinds out of the loop, so no later     *)
(* element is visited (the range is split in halves only to keep the       *)
(* evaluation shallow).                                                    *)
(***************************************************************************)
RECURSIVE render_shapes_iter(_, _, _, _, _)
render_shapes_iter(dbg, st, list, lo, hi) ==
    IF lo > hi \/ st.panicked THEN st
    ELSE IF lo = hi THEN render_shape(dbg, st.shapes, list[lo])
    ELSE LET mid == (lo + hi) \div 2
             first == render_shapes_iter(dbg, st, list, lo, mid)
         IN  render_shapes_iter(dbg, first, list, mid + 1, hi)

\* render_shapes that appends nothing when some element fails
render_shapes_all_or_nothing(dbg, shapes, list) ==
    LET r == render_shapes_iter(dbg, [panicked |-> FALSE, shapes |-> shapes],
                                list, 1, Len(list))
    IN  IF r.panicked THEN [panicked |-> TRUE, shapes |-> shapes] ELSE r

render_shapes(dbg, shapes, list) ==
    render_shapes_iter(dbg, [panicked |-> FALSE, shapes |-> shapes], list, 1, Len(list))

(***************************************************************************)
(* cmd::render::resize: debug_assert!(width != 0 || height != 0), then     *)
(* globals.screen_dim = uvec2(width, height).  The assertion is compiled   *)
(* only into builds with debug assertions (dbg).                           *)
(***************************************************************************)
resize_assert(dbg, width, height) == dbg => (width # 0 \/ height # 0)

resize(dbg, g, width, height) ==
    IF ~resize_assert(dbg, width, height)
    THEN [panicked |-> TRUE, globals |-> g]
    ELSE [panicked |-> FALSE,
          globals |-> [g EXCEPT !.screen_dim = <<width, height>>]]

(***************************************************************************)
(* RenderContext::update_global_uniforms: the field update; the whole      *)
(* record is then written to the uniform buffer.  time is the reading of   *)
(* the time context's clock when the frame is rendered.                    *)
(***************************************************************************)
update_global_uniforms(g, time, len) ==
    [g EXCEPT !.time = time, !.shape_amount = len]

(***************************************************************************)
(* RenderContext::update_input_buffer: queue.write_buffer at offset 0 of   *)
(* the records.  The buffer holds MAX_SHAPE_AMOUNT records                 *)
(* (create_compute_pipeline); a write that overruns it is refused by the   *)
(* device (validation error, which panics), a write that fits replaces the *)
(* first Len(gpu) records and leaves the others.                           *)
(***************************************************************************)
input_buffer_fits(gpu) == Len(gpu) <= MAX_SHAPE_AMOUNT

\* an upload that zeroes the capacity it does not use
update_input_buffer_clearing(buffer, gpu) ==
    gpu \o [i \in 1..(Len(buffer) - Len(gpu)) |-> ShapeGPUDefault]

update_input_buffer(buffer, gpu) ==
    gpu \o SubSeq(buffer, Len(gpu) + 1, Len(buffer))

(***************************************************************************)
(* self.shapes.clear() at the end of execute_raymarch.                     *)
(***************************************************************************)
\* execute_raymarch without the clear
shapes_clear_missing(shapes) == shapes

shapes_clear(shapes) == <<>>

(***************************************************************************)
(* The queue and surface operations of one frame, in program order.        *)
(* execute_raymarch: update_global_uniforms writes the uniform buffer,     *)
(* update_input_buffer writes the records, execute_compute submits the     *)
(* dispatch, then the pending vector is cleared.                           *)
(***************************************************************************)
execute_raymarch_steps ==
    <<"write_globals", "write_shapes", "submit_compute", "clear">>

\* a render that draws the output texture before the compute pass that
\* fills it
render_steps_pass_first(surface) ==
    IF surface = "Ok"
    THEN <<"submit_render", "present">> \o execute_raymarch_steps
    ELSE execute_raymarch_steps

\* a render that acquires the surface texture first and returns on an
\* error before anything was uploaded or dispatched
render_steps_acquire_first(surface) ==
    IF surface = "Ok"
    THEN execute_raymarch_steps \o <<"submit_render", "present">>
    ELSE <<>>

\* RenderContext::render: execute_raymarch, then get_current_texture()?
\* (an error returns here), then the render pass is submitted and the
\* frame presented.
render_steps(surface) ==
    IF surface = "Ok"
    THEN execute_raymarch_steps \o <<"submit_render", "present">>
    ELSE execute_raymarch_steps

(***************************************************************************)
(* input.rs, KeyboardContext: the current and the previous-snapshot sets   *)
(* of keys and of modifiers.  A context is a record with the struct's      *)
(* fields; every mutator returns the updated record.                       *)
(***************************************************************************)
KeyModifiers == {"Shift", "Ctrl", "Alt", "Logo"}

KeyboardContextDefault ==
    [pressed |-> {}, previous_pressed |-> {},
     pressed_modifiers |-> {}, previous_pressed_modifiers |-> {}]

key_pressed(kc, keycode) == keycode \in kc.pressed

\* an edge query that forgets the previous snapshot
key_just_pressed_level(kc, keycode) == keycode \in kc.pressed

key_just_pressed(kc, keycode) ==
    keycode \in kc.pressed /\ keycode \notin kc.previous_pressed

\* a release query that looks at the previous snapshot only
key_released_level(kc, keycode) == keycode \in kc.previous_pressed

key_released(kc, keycode) ==
    keycode \notin kc.pressed /\ keycode \in kc.previous_pressed

modifier_pressed(kc, modifier) == modifier \in kc.pressed_modifiers

modifier_just_pressed(kc, modifier) ==
    /\ modifier \in kc.pressed_modifiers
    /\ modifier \notin kc.previous_pressed_modifiers

modifier_released(kc, modifier) ==
    /\ modifier \notin kc.pressed_modifiers
    /\ modifier \in kc.previous_pressed_modifiers

set_key(kc, keycode) == [kc EXCEPT !.pressed = @ \cup {keycode}]

\* a release that also drops the key from the previous snapshot
release_key_forgets(kc, keycode) ==
    [kc EXCEPT !.pressed = @ \ {keycode}, !.previous_pressed = @ \ {keycode}]

release_key(kc, keycode) == [kc EXCEPT !.pressed = @ \ {keycode}]

\* modifiers_changed without the clear: the new bits are added to the set
modifiers_changed_without_clear(kc, state) ==
    [kc EXCEPT !.pressed_modifiers =
         @ \cup (IF state.shift THEN {"Shift"} ELSE {})
           \cup (IF state.ctrl THEN {"Ctrl"} ELSE {})
           \cup (IF state.alt THEN {"Alt"} ELSE {})
           \cup (IF state.logo THEN {"Logo"} ELSE {})]

\* state is winit's ModifiersState, read through shift(), ctrl(), alt(),
\* logo(): the set is cleared, then one insert per bit that is set.
modifiers_changed(kc, state) ==
    [kc EXCEPT !.pressed_modifiers =
         (IF state.shift THEN {"Shift"} ELSE {})
         \cup (IF state.ctrl THEN {"Ctrl"} ELSE {})
         \cup (IF state.alt THEN {"Alt"} ELSE {})
         \cup (IF state.logo THEN {"Logo"} ELSE {})]

\* a snapshot that copies nothing
save_keys_missing(kc) == kc

save_keys(kc) == [kc EXCEPT !.previous_pressed = kc.pressed]

\* a modifier snapshot that snapshots the keys as well
save_modifiers_and_keys(kc) ==
    [kc EXCEPT !.previous_pressed_modifiers = kc.pressed_modifiers,
               !.previous_pressed = kc.pressed]

save_modifiers(kc) ==
    [kc EXCEPT !.previous_pressed_modifiers = kc.pressed_modifiers]

(***************************************************************************)
(* input.rs, MouseContext.  Positions and deltas are pairs <<x, y>>;       *)
(* window_size is the <<width, height>> the render context stores.         *)
(***************************************************************************)
MouseContextDefault ==
    [on_screen |-> FALSE, pos |-> <<0, 0>>, mouse_delta |-> <<0, 0>>,
     pressed |-> {}, previous_pressed |-> {}, scroll_delta |-> <<0, 0>>]

button_pressed(m, keycode) == keycode \in m.pressed

button_just_pressed(m, keycode) ==
    keycode \in m.pressed /\ keycode \notin m.previous_pressed

button_released(m, keycode) ==
    keycode \notin m.pressed /\ keycode \in m.previous_pressed

on_screen(m) == m.on_screen

mouse_delta(m) == m.mouse_delta

scroll_delta(m) == m.scroll_delta

set_on_screen(m, flag) == [m EXCEPT !.on_screen = flag]

\* a bounds test that counts the right and bottom edge as inside
set_pos_inclusive(m, x, y, window_size) ==
    [m EXCEPT !.pos = <<x, y>>,
              !.on_screen = /\ x >= 0 /\ x <= window_size[1]
                            /\ y >= 0 /\ y <= window_size[2]]

set_pos(m, x, y, window_size) ==
    [m EXCEPT !.pos = <<x, y>>,
              !.on_screen = /\ x >= 0 /\ x < window_size[1]
                            /\ y >= 0 /\ y < window_size[2]]

\* a setter that adds the change to the stored delta
set_mouse_delta_adding(m, change) ==
    [m EXCEPT !.mouse_delta = <<@[1] + change[1], @[2] + change[2]>>]

set_mouse_delta(m, change) == [m EXCEPT !.mouse_delta = change]

set_scroll_delta(m, change) == [m EXCEPT !.scroll_delta = change]

\* a press that toggles: pressing a button that is down lifts it
press_button_toggling(m, keycode) ==
    [m EXCEPT !.pressed =
         IF keycode \in @ THEN @ \ {keycode} ELSE @ \cup {keycode}]

press_button(m, keycode) == [m EXCEPT !.pressed = @ \cup {keycode}]

release_button(m, keycode) == [m EXCEPT !.pressed = @ \ {keycode}]

\* a snapshot that copies nothing
save_buttons_missing(m) == m

save_buttons(m) == [m EXCEPT !.previous_pressed = m.pressed]

(***************************************************************************)
(* render.rs, the window-facing part of RenderContext: the stored window   *)
(* size, the surface configuration, the configuration the surface was last *)
(* configured with, the resolution of the compute output and the size of   *)
(* the last compute dispatch (<<>> before the first).                      *)
(***************************************************************************)
RenderWindowDefault ==
    [window_size |-> <<WIDTH, HEIGHT>>, surface_config |-> <<WIDTH, HEIGHT>>,
     configured |-> <<WIDTH, HEIGHT>>, resolution |-> <<WIDTH, HEIGHT>>,
     dispatched |-> <<>>]

\* a resize that also rescales the compute output
resize_window_rescaling(r, new_size) ==
    IF new_size[1] > 0 /\ new_size[2] > 0
    THEN [r EXCEPT !.window_size = new_size, !.surface_config = new_size,
                   !.configured = new_size, !.resolution = new_size]
    ELSE r

\* a resize that is satisfied with one non-zero dimension
resize_window_either_nonzero(r, new_size) ==
    IF new_size[1] > 0 \/ new_size[2] > 0
    THEN [r EXCEPT !.window_size = new_size, !.surface_config = new_size,
                   !.configured = new_size]
    ELSE r

\* RenderContext::resize_window: for non-zero dimensions the stored size
\* and the surface configuration take the new size and the surface is
\* configured with it.
resize_window(r, new_size) ==
    IF new_size[1] > 0 /\ new_size[2] > 0
    THEN [r EXCEPT !.window_size = new_size, !.surface_config = new_size,
                   !.configured = new_size]
    ELSE r

\* RenderContext::execute_compute: dispatch_workgroups(WIDTH, HEIGHT, 1)
execute_compute(r) == [r EXCEPT !.dispatched = <<WIDTH, HEIGHT, 1>>]

(***************************************************************************)
(* MouseContext::mouse_pos_pixel: the position relative to the window      *)
(* size, scaled to the resolution and cast to u32.  The cast of a float    *)
(* truncates toward zero and saturates, so a negative value gives 0; the   *)
(* upper saturation at u32::MAX is out of the range of the positions and   *)
(* sizes used here.  Positions are whole numbers and the quotient num/den  *)
(* is taken exactly.                                                       *)
(***************************************************************************)
as_u32(num, den) == IF num < 0 THEN 0 ELSE num \div den

mouse_pos_pixel(m, r) ==
    <<as_u32(m.pos[1] * r.resolution[1], r.window_size[1]),
      as_u32(m.pos[2] * r.resolution[2], r.window_size[2])>>

(***************************************************************************)
(* Inputs of the frame loop.  Fill(n) is a vector of n distinguishable     *)
(* primitives, as an application with a large scene passes to              *)
(* render_shapes.                                                          *)
(***************************************************************************)
ShapeA == Sphere(<<1, 0, 0>>, 1)

ShapeB == Sphere(<<0, 2, 0>>, 2)

ShapeC == BoxExact(<<0, 0, 3>>, <<1, 2, 3>>)

ShapeD == Plane(<<0, 1, 0>>, <<0, 1, 0>>)

Fill(n) == [i \in 1..n |-> Sphere(<<i, 0, 0>>, 1)]

ShapeInputs == {ShapeC, Union(ShapeA, ShapeB)}

ListInputs == {Fill(MAX_SHAPE_AMOUNT - 1)}

SurfaceResults == {"Ok", "Timeout", "Outdated", "Lost", "OutOfMemory"}

(***************************************************************************)
(* State.                                                                  *)
(*   debug_assertions  build flavour (cfg!(debug_assertions)), fixed       *)
(*   pc                position of the event loop: "events" (window and    *)
(*                     device events of the iteration), "update" (inside   *)
(*                     the application's update callback), "redraw"        *)
(*                     (RedrawRequested pending), "exit", "panicked"       *)
(*   control_flow      winit's ControlFlow ("Poll" or "Exit")              *)
(*   shapes            RenderContext.shapes, the pending roots             *)
(*   globals           RenderContext.globals (fields used here)            *)
(*   global_uniform_buffer, input_buffer   device-side buffer contents     *)
(*   uploaded          the record vector last passed to update_input_buffer*)
(*   frame_log         queue / surface operations of the last render call  *)
(*   call              the operation performed by the last step            *)
(*   calls, frames     commands issued so far, frames started              *)
(*   submitted         history: roots accepted since this frame's update   *)
(*                     began                                               *)
(*   keyboard, mouse   ctx.input.keyboard, ctx.input.mouse                 *)
(*   render            the window-facing fields of ctx.render              *)
(*   hist              history: the current key, modifier and button sets  *)
(*                     at the return of the previous update call, and the  *)
(*                     motion and wheel deltas delivered since then        *)
(*   events            input and window events delivered so far            *)
(***************************************************************************)
VARIABLES debug_assertions, pc, control_flow, shapes, globals,
          global_uniform_buffer, input_buffer, uploaded, frame_log,
          call, calls, frames, submitted,
          keyboard, mouse, render, hist, events

vars == <<debug_assertions, pc, control_flow, shapes, globals,
          global_uniform_buffer, input_buffer, uploaded, frame_log,
          call, calls, frames, submitted,
          keyboard, mouse, render, hist, events>>

HistDefault ==
    [prev_update |-> [keys |-> {}, modifiers |-> {}, buttons |-> {}],
     motion |-> <<>>, wheel |-> <<>>]

GlobalsDefault ==
    [screen_dim |-> <<WIDTH, HEIGHT>>, time |-> 2, shape_amount |-> 0]

\* RenderContext::new: default globals, zero-initialised shape buffer of
\* MAX_SHAPE_AMOUNT records, empty pending vector.
Init ==
    /\ debug_assertions \in BOOLEAN
    /\ pc = "events"
    /\ control_flow = "Poll"
    /\ shapes = <<>>
    /\ globals = GlobalsDefault
    /\ global_uniform_buffer = GlobalsDefault
    /\ input_buffer = [i \in 1..MAX_SHAPE_AMOUNT |-> ShapeGPUDefault]
    /\ uploaded = <<>>
    /\ frame_log = <<>>
    /\ call = [op |-> "new", arg |-> "-"]
    /\ calls = 0
    /\ frames = 0
    /\ submitted = <<>>
    /\ keyboard = KeyboardContextDefault
    /\ mouse = MouseContextDefault
    /\ render = RenderWindowDefault
    /\ hist = HistDefault
    /\ events = 0

\* WindowEvent::CloseRequested
CloseRequested ==
    /\ pc = "events"
    /\ control_flow = "Poll"
    /\ control_flow' = "Exit"
    /\ call' = [op |-> "CloseRequested", arg |-> "-"]
    /\ UNCHANGED <<debug_assertions, pc, shapes, globals, global_uniform_buffer,
                   input_buffer, uploaded, frame_log, calls, frames, submitted>>
    /\ UNCHANGED <<keyboard, mouse, render, hist, events>>

\* Event::MainEventsCleared: app.update(&mut ctx) is entered.
MainEventsCleared ==
    /\ pc = "events"
    /\ frames < MaxFrames
    /\ pc' = "update"
    /\ frames' = frames + 1
    /\ submitted' = <<>>
    /\ call' = [op |-> "MainEventsCleared", arg |-> "-"]
    /\ UNCHANGED <<debug_assertions, control_flow, shapes, globals,
                   global_uniform_buffer, input_buffer, uploaded, frame_log, calls>>
    /\ UNCHANGED <<keyboard, mouse, render, hist, events>>

\* The update callback calls cmd::render::render_shape(ctx, shape).
RenderShape(shape) ==
    /\ pc = "update"
    /\ calls < MaxCalls
    /\ LET r == render_shape(debug_assertions, shapes, shape)
       IN  /\ shapes' = r.shapes
           /\ pc' = IF r.panicked THEN "panicked" ELSE pc
           /\ submitted' = IF r.panicked THEN submitted ELSE Append(submitted, shape)
    /\ calls' = calls + 1
    /\ call' = [op |-> "render_shape", arg |-> shape]
    /\ UNCHANGED <<debug_assertions, control_flow, globals, global_uniform_buffer,
                   input_buffer, uploaded, frame_log, frames>>
    /\ UNCHANGED <<keyboard, mouse, render, hist, events>>

\* The update callback calls cmd::render::render_shapes(ctx, list).
RenderShapes(list) ==
    /\ pc = "update"
    /\ calls < MaxCalls
    /\ LET r == render_shapes(debug_assertions, shapes, list)
       IN  /\ shapes' = r.shapes
           /\ pc' = IF r.panicked THEN "panicked" ELSE pc
           /\ submitted' = submitted \o SubSeq(r.shapes, Len(shapes) + 1, Len(r.shapes))
    /\ calls' = calls + 1
    /\ call' = [op |-> "render_shapes", arg |-> list]
    /\ UNCHANGED <<debug_assertions, control_flow, globals, global_uniform_buffer,
                   input_buffer, uploaded, frame_log, frames>>
    /\ UNCHANGED <<keyboard, mouse, render, hist, events>>

(***************************************************************************)
(* The end of app.update, after the application's callback has run: the    *)
(* frame boundary of the input state.  The current sets are copied into    *)
(* the previous-snapshot sets and the motion and scroll deltas are set     *)
(* back to zero.                                                           *)
(***************************************************************************)
frame_boundary_keyboard(kc) == save_modifiers(save_keys(kc))

frame_boundary_mouse(m) ==
    set_scroll_delta(set_mouse_delta(save_buttons(m), <<0, 0>>), <<0, 0>>)

\* app.update returns should_exit; window.request_redraw() follows.
UpdateReturn(should_exit) ==
    /\ pc = "update"
    /\ control_flow' = IF should_exit THEN "Exit" ELSE control_flow
    /\ pc' = "redraw"
    /\ keyboard' = frame_boundary_keyboard(keyboard)
    /\ mouse' = frame_boundary_mouse(mouse)
    /\ hist' = [prev_update |-> [keys |-> keyboard.pressed,
                                 modifiers |-> keyboard.pressed_modifiers,
                                 buttons |-> mouse.pressed],
                motion |-> <<>>, wheel |-> <<>>]
    /\ call' = [op |-> "update_return", arg |-> should_exit]
    /\ UNCHANGED <<debug_assertions, shapes, globals, global_uniform_buffer,
                   input_buffer, uploaded, frame_log, calls, frames, submitted,
                   render, events>>

(***************************************************************************)
(* The match of run_window on the result of render: Err(Lost) is answered  *)
(* with resize_window(window_size), Err(OutOfMemory) with                  *)
(* ControlFlow::Exit, any other error is printed, Ok needs nothing.        *)
(***************************************************************************)
render_result_reconfigures(surface) == surface = "Lost"

\* every surface error ends the loop
render_result_exits_on_error(surface) == surface # "Ok"

render_result_exits(surface) == surface = "OutOfMemory"

(***************************************************************************)
(* Event::RedrawRequested: ctx.render.render(&ctx.time) and the match on   *)
(* its result.  render = execute_raymarch (update_global_uniforms with the *)
(* length of the pending vector, update_input_buffer with the encoded      *)
(* records, execute_compute, shapes.clear()), then get_current_texture,    *)
(* whose outcome is the input surface, then the render pass and present.   *)
(* The clock reading time_since_start() is abstracted to the number of the *)
(* frame being rendered; a Lost surface is answered with                   *)
(* resize_window(window_size).                                             *)
(***************************************************************************)
RedrawRequested(surface) ==
    /\ pc = "redraw"
    /\ LET g == update_global_uniforms(globals, frames, Len(shapes))
           gpu == shapes_to_gpu(shapes)
       IN  /\ globals' = g
           /\ global_uniform_buffer' = g
           /\ uploaded' = gpu
           /\ IF ~input_buffer_fits(gpu)
              THEN /\ pc' = "panicked"
                   /\ frame_log' = SubSeq(render_steps(surface), 1, 2)
                   /\ UNCHANGED <<input_buffer, shapes, control_flow, render>>
              ELSE /\ input_buffer' = update_input_buffer(input_buffer, gpu)
                   /\ shapes' = shapes_clear(shapes)
                   /\ frame_log' =
                         render_steps(surface)
                         \o (IF render_result_reconfigures(surface)
                             THEN <<"configure">> ELSE <<>>)
                   /\ render' =
                         IF render_result_reconfigures(surface)
                         THEN resize_window(execute_compute(render),
                                            render.window_size)
                         ELSE execute_compute(render)
                   /\ control_flow' =
                         IF render_result_exits(surface) THEN "Exit"
                         ELSE control_flow
                   /\ pc' = IF control_flow' = "Exit" THEN "exit" ELSE "events"
    /\ call' = [op |-> "render", arg |-> surface]
    /\ UNCHANGED <<debug_assertions, calls, frames, submitted,
                   keyboard, mouse, hist, events>>

Next ==
    \/ CloseRequested
    \/ MainEventsCleared
    \/ \E shape \in ShapeInputs : RenderShape(shape)
    \/ \E list \in ListInputs : RenderShapes(list)
    \/ \E should_exit \in BOOLEAN : UpdateReturn(should_exit)
    \/ \E surface \in SurfaceResults : RedrawRequested(surface)

Spec == Init /\ [][Next]_vars

(***************************************************************************)
(* The input events of run_window.  Events are delivered between frames    *)
(* (pc = "events"), before MainEventsCleared starts the next update.       *)
(* frame_vars are the variables no input or window event touches.          *)
(***************************************************************************)
frame_vars == <<debug_assertions, pc, control_flow, shapes, globals,
                global_uniform_buffer, input_buffer, uploaded, frame_log,
                calls, frames, submitted>>

KeyCodes == {"A", "B"}

VirtualKeyCodes == KeyCodes \cup {"None"}

ElementStates == {"Pressed", "Released"}

MouseButtons == {"Left", "Right"}

ModifiersState(shift, ctrl, alt, logo) ==
    [shift |-> shift, ctrl |-> ctrl, alt |-> alt, logo |-> logo]

ModifiersStates ==
    {ModifiersState(FALSE, FALSE, FALSE, FALSE),
     ModifiersState(TRUE, TRUE, FALSE, FALSE),
     ModifiersState(FALSE, TRUE, FALSE, FALSE),
     ModifiersState(FALSE, FALSE, TRUE, TRUE)}

\* WindowEvent::KeyboardInput: nothing happens without a virtual keycode.
KeyboardInput(virtual_keycode, state) ==
    /\ pc = "events"
    /\ events < MaxEvents
    /\ keyboard' = IF virtual_keycode = "None" THEN keyboard
                   ELSE IF state = "Pressed"
                        THEN set_key(keyboard, virtual_keycode)
                        ELSE release_key(keyboard, virtual_keycode)
    /\ events' = events + 1
    /\ call' = [op |-> "KeyboardInput",
                arg |-> [virtual_keycode |-> virtual_keycode, state |-> state]]
    /\ UNCHANGED <<frame_vars, mouse, render, hist>>

\* WindowEvent::ModifiersChanged
ModifiersChanged(modifiers) ==
    /\ pc = "events"
    /\ events < MaxEvents
    /\ keyboard' = modifiers_changed(keyboard, modifiers)
    /\ events' = events + 1
    /\ call' = [op |-> "ModifiersChanged", arg |-> modifiers]
    /\ UNCHANGED <<frame_vars, mouse, render, hist>>

\* WindowEvent::MouseInput
MouseInput(state, button) ==
    /\ pc = "events"
    /\ events < MaxEvents
    /\ mouse' = IF state = "Pressed" THEN press_button(mouse, button)
                ELSE release_button(mouse, button)
    /\ events' = events + 1
    /\ call' = [op |-> "MouseInput", arg |-> [button |-> button, state |-> state]]
    /\ UNCHANGED <<frame_vars, keyboard, render, hist>>

\* The keys, modifiers and buttons under the frame loop.
NextInput ==
    \/ MainEventsCleared
    \/ \E should_exit \in BOOLEAN : UpdateReturn(should_exit)
    \/ \E surface \in SurfaceResults : RedrawRequested(surface)
    \/ \E k \in VirtualKeyCodes, state \in ElementStates : KeyboardInput(k, state)
    \/ \E modifiers \in ModifiersStates : ModifiersChanged(modifiers)
    \/ \E state \in ElementStates, button \in MouseButtons : MouseInput(state, button)

SpecInput == Init /\ [][NextInput]_vars

(***************************************************************************)
(* Mouse motion and wheel events.  A wheel delta is LineDelta(x, y) or     *)
(* PixelDelta(pos); both are turned into the pair (x, y).                  *)
(***************************************************************************)
LineDelta(x, y) == [kind |-> "LineDelta", x |-> x, y |-> y]

PixelDelta(x, y) == [kind |-> "PixelDelta", pos |-> [x |-> x, y |-> y]]

MotionDeltas == {<<1, 0>>, <<2, -1>>}

ScrollDeltas == {LineDelta(0, 1), PixelDelta(0, -3)}

\* DeviceEvent::MouseMotion
MouseMotion(delta) ==
    /\ pc = "events"
    /\ events < MaxEvents
    /\ mouse' = set_mouse_delta(mouse, delta)
    /\ hist' = [hist EXCEPT !.motion = Append(@, delta)]
    /\ events' = events + 1
    /\ call' = [op |-> "MouseMotion", arg |-> delta]
    /\ UNCHANGED <<frame_vars, keyboard, render>>

\* WindowEvent::MouseWheel
MouseWheel(delta) ==
    /\ pc = "events"
    /\ events < MaxEvents
    /\ LET xy == IF delta.kind = "LineDelta" THEN <<delta.x, delta.y>>
                 ELSE <<delta.pos.x, delta.pos.y>>
       IN  /\ mouse' = set_scroll_delta(mouse, xy)
           /\ hist' = [hist EXCEPT !.wheel = Append(@, xy)]
    /\ events' = events + 1
    /\ call' = [op |-> "MouseWheel", arg |-> delta]
    /\ UNCHANGED <<frame_vars, keyboard, render>>

\* The motion and scroll deltas under the frame loop.
NextPointer ==
    \/ MainEventsCleared
    \/ \E should_exit \in BOOLEAN : UpdateReturn(should_exit)
    \/ \E surface \in SurfaceResults : RedrawRequested(surface)
    \/ \E delta \in MotionDeltas : MouseMotion(delta)
    \/ \E delta \in ScrollDeltas : MouseWheel(delta)

SpecPointer == Init /\ [][NextPointer]_vars

(***************************************************************************)
(* Window resizes and the cursor.  Sizes are physical <<width, height>>,   *)
(* cursor positions are <<x, y>> in physical pixels.                       *)
(***************************************************************************)
WindowSizes == {<<0, 480>>, <<640, 480>>, <<1920, 1080>>}

CursorPositions ==
    {<<0, 0>>, <<-1, 10>>, <<640, 100>>, <<700, 500>>, <<1280, 300>>}

\* WindowEvent::Resized
Resized(physical_size) ==
    /\ pc = "events"
    /\ events < MaxEvents
    /\ render' = resize_window(render, physical_size)
    /\ events' = events + 1
    /\ call' = [op |-> "Resized", arg |-> physical_size]
    /\ UNCHANGED <<frame_vars, keyboard, mouse, hist>>

\* WindowEvent::ScaleFactorChanged
ScaleFactorChanged(new_inner_size) ==
    /\ pc = "events"
    /\ events < MaxEvents
    /\ render' = resize_window(render, new_inner_size)
    /\ events' = events + 1
    /\ call' = [op |-> "ScaleFactorChanged", arg |-> new_inner_size]
    /\ UNCHANGED <<frame_vars, keyboard, mouse, hist>>

\* WindowEvent::CursorMoved
CursorMoved(position) ==
    /\ pc = "events"
    /\ events < MaxEvents
    /\ mouse' = set_pos(mouse, position[1], position[2], render.window_size)
    /\ events' = events + 1
    /\ call' = [op |-> "CursorMoved", arg |-> position]
    /\ UNCHANGED <<frame_vars, keyboard, render, hist>>

\* WindowEvent::CursorLeft
CursorLeft ==
    /\ pc = "events"
    /\ events < MaxEvents
    /\ mouse' = set_on_screen(mouse, FALSE)
    /\ events' = events + 1
    /\ call' = [op |-> "CursorLeft", arg |-> "-"]
    /\ UNCHANGED <<frame_vars, keyboard, render, hist>>

\* The window size and the cursor under the frame loop.
NextWindow ==
    \/ MainEventsCleared
    \/ \E should_exit \in BOOLEAN : UpdateReturn(should_exit)
    \/ \E surface \in SurfaceResults : RedrawRequested(surface)
    \/ \E size \in WindowSizes : Resized(size)
    \/ \E size \in WindowSizes : ScaleFactorChanged(size)
    \/ \E position \in CursorPositions : CursorMoved(position)
    \/ CursorLeft

SpecWindow == Init /\ [][NextWindow]_vars

(***************************************************************************)
(* Resize requests of every shape under the frame loop: both dimensions    *)
(* zero, one of them zero, and two different non-zero sizes.               *)
(***************************************************************************)
ResizeSizes ==
    {<<0, 0>>, <<0, 480>>, <<640, 0>>, <<640, 480>>, <<1920, 1080>>}

NextResize ==
    \/ MainEventsCleared
    \/ \E should_exit \in BOOLEAN : UpdateReturn(should_exit)
    \/ \E surface \in SurfaceResults : RedrawRequested(surface)
    \/ \E size \in ResizeSizes : Resized(size)
    \/ \E size \in ResizeSizes : ScaleFactorChanged(size)

SpecResize == Init /\ [][NextResize]_vars

(***************************************************************************)
(* The resize command under the frame loop: the update callback calls      *)
(* cmd::render::resize(ctx, width, height).                                *)
(***************************************************************************)
ScreenDims == {<<0, 0>>, <<0, 480>>, <<640, 0>>, <<640, 480>>}

CmdResize(width, height) ==
    /\ pc = "update"
    /\ calls < MaxCalls
    /\ LET r == resize(debug_assertions, globals, width, height)
       IN  /\ globals' = r.globals
           /\ pc' = IF r.panicked THEN "panicked" ELSE pc
    /\ calls' = calls + 1
    /\ call' = [op |-> "resize", arg |-> <<width, height>>]
    /\ UNCHANGED <<debug_assertions, control_flow, shapes, global_uniform_buffer,
                   input_buffer, uploaded, frame_log, frames, submitted,
                   keyboard, mouse, render, hist, events>>

NextCommands ==
    \/ MainEventsCleared
    \/ \E dim \in ScreenDims : CmdResize(dim[1], dim[2])
    \/ \E should_exit \in BOOLEAN : UpdateReturn(should_exit)
    \/ \E surface \in SurfaceResults : RedrawRequested(surface)

SpecCommands == Init /\ [][NextCommands]_vars

(***************************************************************************)
(* The edge-detection state on its own, driven the way the unit tests of   *)
(* input.rs drive it: the crate-internal mutators and the snapshots called *)
(* one at a time, in any order, on a default context.                      *)
(***************************************************************************)
CallSetKey(keycode) ==
    /\ keyboard' = set_key(keyboard, keycode)
    /\ call' = [op |-> "set_key", arg |-> keycode]
    /\ UNCHANGED <<frame_vars, mouse, render, hist, events>>

CallReleaseKey(keycode) ==
    /\ keyboard' = release_key(keyboard, keycode)
    /\ call' = [op |-> "release_key", arg |-> keycode]
    /\ UNCHANGED <<frame_vars, mouse, render, hist, events>>

CallModifiersChanged(state) ==
    /\ keyboard' = modifiers_changed(keyboard, state)
    /\ call' = [op |-> "modifiers_changed", arg |-> state]
    /\ UNCHANGED <<frame_vars, mouse, render, hist, events>>

CallSaveKeys ==
    /\ keyboard' = save_keys(keyboard)
    /\ call' = [op |-> "save_keys", arg |-> "-"]
    /\ UNCHANGED <<frame_vars, mouse, render, hist, events>>

CallSaveModifiers ==
    /\ keyboard' = save_modifiers(keyboard)
    /\ call' = [op |-> "save_modifiers", arg |-> "-"]
    /\ UNCHANGED <<frame_vars, mouse, render, hist, events>>

CallPressButton(keycode) ==
    /\ mouse' = press_button(mouse, keycode)
    /\ call' = [op |-> "press_button", arg |-> keycode]
    /\ UNCHANGED <<frame_vars, keyboard, render, hist, events>>

CallReleaseButton(keycode) ==
    /\ mouse' = release_button(mouse, keycode)
    /\ call' = [op |-> "release_button", arg |-> keycode]
    /\ UNCHANGED <<frame_vars, keyboard, render, hist, events>>

CallSaveButtons ==
    /\ mouse' = save_buttons(mouse)
    /\ call' = [op |-> "save_buttons", arg |-> "-"]
    /\ UNCHANGED <<frame_vars, keyboard, render, hist, events>>

NextEdges ==
    \/ \E keycode \in KeyCodes : CallSetKey(keycode)
    \/ \E keycode \in KeyCodes : CallReleaseKey(keycode)
    \/ \E state \in ModifiersStates : CallModifiersChanged(state)
    \/ CallSaveKeys
    \/ CallSaveModifiers
    \/ \E keycode \in MouseButtons : CallPressButton(keycode)
    \/ \E keycode \in MouseButtons : CallReleaseButton(keycode)
    \/ CallSaveButtons

SpecEdges == Init /\ [][NextEdges]_vars

(***************************************************************************)
(* The encoder on its own: the event loop stands at RedrawRequested with   *)
(* an arbitrary pending vector of at most MaxRoots roots and MaxNodes      *)
(* nodes in all, built from the four primitives and the three operations.  *)
(***************************************************************************)
Primitives == {ShapeA, ShapeB, ShapeC, ShapeD}

RECURSIVE TreesOfSize(_)
TreesOfSize(n) ==
    IF n = 1 THEN Primitives
    ELSE UNION {{Composite(kind, left, right) :
                    kind \in CompositeKinds,
                    left \in TreesOfSize(m),
                    right \in TreesOfSize(n - 1 - m)} : m \in 1..(n - 2)}

RECURSIVE ListsOfSize(_, _)
ListsOfSize(n, k) ==
    IF k = 0 THEN (IF n = 0 THEN {<<>>} ELSE {})
    ELSE UNION {{Append(list, tree) :
                    list \in ListsOfSize(n - m, k - 1),
                    tree \in TreesOfSize(m)} : m \in 1..n}

EncodeInputs == UNION {ListsOfSize(n, k) : n \in 1..MaxNodes, k \in 1..MaxRoots}

InitEncode ==
    /\ debug_assertions = TRUE
    /\ pc = "redraw"
    /\ control_flow = "Poll"
    /\ shapes \in EncodeInputs
    /\ globals = GlobalsDefault
    /\ global_uniform_buffer = GlobalsDefault
    /\ input_buffer = [i \in 1..MAX_SHAPE_AMOUNT |-> ShapeGPUDefault]
    /\ uploaded = <<>>
    /\ frame_log = <<>>
    /\ call = [op |-> "update_return", arg |-> FALSE]
    /\ calls = 1
    /\ frames = 1
    /\ submitted = shapes
    /\ keyboard = KeyboardContextDefault
    /\ mouse = MouseContextDefault
    /\ render = RenderWindowDefault
    /\ hist = HistDefault
    /\ events = 0

NextEncode == RedrawRequested("Ok")

SpecEncode == InitEncode /\ [][NextEncode]_vars

(***************************************************************************)
(* Vocabulary of the properties.                                           *)
(***************************************************************************)
\* nodes of a shape tree: 1 for a primitive, 1 + left + right for a composite
RECURSIVE node_count(_)
node_count(shape) ==
    IF shape.kind \in CompositeKinds
    THEN 1 + node_count(shape.shape1) + node_count(shape.shape2)
    ELSE 1

\* sum of node_count over roots[lo..hi]
RECURSIVE NodeTotalRange(_, _, _)
NodeTotalRange(roots, lo, hi) ==
    IF lo > hi THEN 0
    ELSE IF lo = hi THEN node_count(roots[lo])
    ELSE NodeTotalRange(roots, lo, (lo + hi) \div 2)
         + NodeTotalRange(roots, (lo + hi) \div 2 + 1, hi)

\* total flattened record count of a list of roots
NodeTotal(roots) == NodeTotalRange(roots, 1, Len(roots))

\* encode([r_lo]) ++ ... ++ encode([r_hi]), each root encoded on its own
RECURSIVE ConcatEncodings(_, _, _)
ConcatEncodings(roots, lo, hi) ==
    IF lo > hi THEN <<>>
    ELSE IF lo = hi THEN shapes_to_gpu(<<roots[lo]>>)
    ELSE ConcatEncodings(roots, lo, (lo + hi) \div 2)
         \o ConcatEncodings(roots, (lo + hi) \div 2 + 1, hi)

\* the opcode space of the record format
Opcode(kind) ==
    CASE kind = "Union" -> 0
      [] kind = "Intersection" -> 1
      [] kind = "Subtraction" -> 2
      [] kind = "Sphere" -> 6
      [] kind = "BoxExact" -> 7
      [] kind = "Plane" -> 8

\* the record the format prescribes for one node
ExpectedRecord(shape) ==
    CASE shape.kind \in CompositeKinds ->
            [id |-> Opcode(shape.kind), pos |-> <<0, 0, 0>>, v1 |-> <<0, 0, 0>>, f1 |-> 0]
      [] shape.kind = "Sphere" ->
            [id |-> 6, pos |-> shape.pos, v1 |-> <<0, 0, 0>>, f1 |-> shape.radius]
      [] shape.kind = "BoxExact" ->
            [id |-> 7, pos |-> shape.pos, v1 |-> shape.b, f1 |-> 0]
      [] shape.kind = "Plane" ->
            [id |-> 8, pos |-> shape.pos, v1 |-> shape.normal, f1 |-> 0]

\* the prescribed records of all nodes of a tree, as a set
RECURSIVE NodeRecords(_)
NodeRecords(shape) ==
    IF shape.kind \in CompositeKinds
    THEN {ExpectedRecord(shape)} \cup NodeRecords(shape.shape1)
                                 \cup NodeRecords(shape.shape2)
    ELSE {ExpectedRecord(shape)}

Range(seq) == {seq[i] : i \in 1..Len(seq)}

(***************************************************************************)
(* C1: render_shape succeeds and appends the shape as the last pending     *)
(* root exactly when the flattened record total of the pending roots plus  *)
(* node_count(shape) is at most MAX_SHAPE_AMOUNT, and fails (panics,       *)
(* nothing appended) otherwise.                                            *)
(***************************************************************************)
C1_SubmitIffWithinCapacity ==
    [][call'.op = "render_shape" =>
          IF NodeTotal(shapes) + node_count(call'.arg) <= MAX_SHAPE_AMOUNT
          THEN pc' # "panicked" /\ shapes' = Append(shapes, call'.arg)
          ELSE pc' = "panicked" /\ shapes' = shapes]_vars

(***************************************************************************)
(* C2: in every reachable state the flattened record total of the pending  *)
(* roots is at most MAX_SHAPE_AMOUNT, and the record vector handed to      *)
(* update_input_buffer never exceeds the MAX_SHAPE_AMOUNT records of the   *)
(* storage buffer.                                                         *)
(***************************************************************************)
C2_PendingWithinCapacity ==
    /\ NodeTotal(shapes) <= MAX_SHAPE_AMOUNT
    /\ Len(uploaded) <= MAX_SHAPE_AMOUNT

(***************************************************************************)
(* C3: a capacity violation is fatal: a submission that would take the     *)
(* flattened total over MAX_SHAPE_AMOUNT panics without being accepted,    *)
(* and no frame is encoded, uploaded or dispatched for a pending list      *)
(* whose flattened total is over MAX_SHAPE_AMOUNT.                         *)
(***************************************************************************)
C3_ViolationStopsProgress ==
    [][/\ (NodeTotal(shapes) <= MAX_SHAPE_AMOUNT
           /\ NodeTotal(shapes') > MAX_SHAPE_AMOUNT) => pc' = "panicked"
       /\ (NodeTotal(shapes) > MAX_SHAPE_AMOUNT) =>
             /\ uploaded' = uploaded
             /\ global_uniform_buffer' = global_uniform_buffer
             /\ frame_log' = frame_log]_vars

(***************************************************************************)
(* C4: render_shapes(list) applies render_shape to the elements in list    *)
(* order and stops at the first element on which render_shape fails: the   *)
(* k elements before it are appended in order, it and the later ones are   *)
(* not, and the call panics exactly when some element failed.              *)
(***************************************************************************)
C4_ShortCircuit ==
    [][call'.op = "render_shapes" =>
          LET list == call'.arg
              k == Len(shapes') - Len(shapes)
              Prefix(j) == shapes \o SubSeq(list, 1, j)
          IN  /\ k \in 0..Len(list)
              /\ shapes' = Prefix(k)
              /\ \A j \in 1..k :
                    ~render_shape(debug_assertions, Prefix(j - 1), list[j]).panicked
              /\ (k < Len(list)) <=> (pc' = "panicked")
              /\ (k < Len(list)) =>
                    render_shape(debug_assertions, Prefix(k), list[k + 1]).panicked]_vars

\* render_shapes stopped inside the list: on 255 pending roots the first
\* element of the list was appended, the second failed
C4_Witness ==
    /\ call.op = "render_shapes"
    /\ pc = "panicked"
    /\ Len(call.arg) = MAX_SHAPE_AMOUNT - 1
    /\ Len(shapes) = MAX_SHAPE_AMOUNT
    /\ shapes[MAX_SHAPE_AMOUNT] = call.arg[1]

(***************************************************************************)
(* C5: the encoding of the pending roots has exactly node_count(T) records *)
(* for a single root T and the sum of the roots' node counts for a list.   *)
(***************************************************************************)
C5_RecordCount ==
    [][call'.op = "render" =>
          /\ Len(uploaded') = NodeTotal(shapes)
          /\ Len(shapes) = 1 => Len(uploaded') = node_count(shapes[1])]_vars

\* a single composite root of five nodes was encoded into five records
C5_Witness ==
    /\ call.op = "render"
    /\ Len(submitted) = 1
    /\ node_count(submitted[1]) = 5
    /\ Len(uploaded) = 5

(***************************************************************************)
(* C6: records come in preorder: the encoding of a composite root is its   *)
(* own record, then the whole encoding of its left subtree, then the whole *)
(* encoding of its right subtree; Union(Sphere A, Sphere B) encodes to     *)
(* exactly [Union, A, B].                                                  *)
(***************************************************************************)
C6_Preorder ==
    [][(call'.op = "render" /\ Len(shapes) = 1) =>
          LET root == shapes[1]
          IN  /\ uploaded'[1].id = Opcode(root.kind)
              /\ root.kind \in CompositeKinds =>
                    uploaded' = <<ExpectedRecord(root)>>
                                \o shapes_to_gpu(<<root.shape1>>)
                                \o shapes_to_gpu(<<root.shape2>>)
              /\ root = Union(ShapeA, ShapeB) =>
                    uploaded' = << [id |-> 0, pos |-> <<0, 0, 0>>, v1 |-> <<0, 0, 0>>, f1 |-> 0],
                                   [id |-> 6, pos |-> <<1, 0, 0>>, v1 |-> <<0, 0, 0>>, f1 |-> 1],
                                   [id |-> 6, pos |-> <<0, 2, 0>>, v1 |-> <<0, 0, 0>>, f1 |-> 2] >>]_vars

\* a composite whose left child is itself a composite was encoded
C6_Witness ==
    /\ call.op = "render"
    /\ Len(submitted) = 1
    /\ submitted[1].kind \in CompositeKinds
    /\ submitted[1].shape1.kind \in CompositeKinds
    /\ Len(uploaded) = 5
    /\ uploaded[2].id = Opcode(submitted[1].shape1.kind)

(***************************************************************************)
(* C7: for roots submitted in the order r1..rN the encoded stream is       *)
(* encode([r1]) ++ ... ++ encode([rN]), nothing in between; if all roots   *)
(* are primitives it has N records, the i-th being the i-th root's.        *)
(***************************************************************************)
C7_RootsConcatenated ==
    [][call'.op = "render" =>
          /\ uploaded' = ConcatEncodings(submitted, 1, Len(submitted))
          /\ (\A i \in 1..Len(submitted) : submitted[i].kind \notin CompositeKinds) =>
                /\ Len(uploaded') = Len(submitted)
                /\ \A i \in 1..Len(submitted) :
                      uploaded'[i] = ExpectedRecord(submitted[i])]_vars

\* a composite root followed by a primitive root was encoded in one frame
C7_Witness ==
    /\ call.op = "render"
    /\ submitted = <<Union(ShapeA, ShapeB), ShapeC>>
    /\ Len(uploaded) = 4
    /\ uploaded[4].id = 7

(***************************************************************************)
(* C8: every emitted record carries the opcode and the payload of its      *)
(* node's kind: composites all zero, Sphere pos and f1 = radius, BoxExact  *)
(* pos and v1 = half extents, Plane pos and v1 = normal.                   *)
(***************************************************************************)
C8_RecordContents ==
    [][call'.op = "render" =>
          /\ Range(uploaded') = UNION {NodeRecords(shapes[i]) : i \in 1..Len(shapes)}
          /\ (Len(shapes) = 1 /\ shapes[1].kind \notin CompositeKinds) =>
                uploaded' = <<ExpectedRecord(shapes[1])>>
          /\ \A i \in 1..Len(uploaded') :
                /\ uploaded'[i].id \in {0, 1, 2, 6, 7, 8}
                /\ uploaded'[i].id \in {0, 1, 2} =>
                      /\ uploaded'[i].pos = <<0, 0, 0>>
                      /\ uploaded'[i].v1 = <<0, 0, 0>>
                      /\ uploaded'[i].f1 = 0
                /\ uploaded'[i].id = 6 => uploaded'[i].v1 = <<0, 0, 0>>
                /\ uploaded'[i].id \in {7, 8} => uploaded'[i].f1 = 0]_vars

\* a sphere, a box and a plane record were emitted in one stream
C8_Witness ==
    /\ call.op = "render"
    /\ submitted = <<ShapeA, ShapeC, ShapeD>>
    /\ uploaded = << [id |-> 6, pos |-> <<1, 0, 0>>, v1 |-> <<0, 0, 0>>, f1 |-> 1],
                     [id |-> 7, pos |-> <<0, 0, 3>>, v1 |-> <<1, 2, 3>>, f1 |-> 0],
                     [id |-> 8, pos |-> <<0, 1, 0>>, v1 |-> <<0, 1, 0>>, f1 |-> 0] >>

(***************************************************************************)
(* C9: after the frame's globals update, shape_amount equals the number of *)
(* flattened records encoded for that frame (the sum of node_count over    *)
(* the pending roots, the length of the uploaded record array).            *)
(***************************************************************************)
C9_ShapeCountIsRecordCount ==
    [][call'.op = "render" =>
          /\ globals'.shape_amount = Len(uploaded')
          /\ globals'.shape_amount = NodeTotal(shapes)
          /\ global_uniform_buffer'.shape_amount = Len(uploaded')]_vars

(***************************************************************************)
(* C10: the pending list is empty at startup and empty again after every   *)
(* frame's encode and upload, so the stream of a frame is the encoding of  *)
(* exactly the roots submitted during that frame's update.                 *)
(***************************************************************************)
C10_ClearedEveryFrame ==
    /\ [](pc = "events" => shapes = <<>>)
    /\ [][(call'.op = "render" /\ pc' # "panicked") =>
             /\ shapes' = <<>>
             /\ uploaded' = shapes_to_gpu(submitted)]_vars

\* the second frame uploaded only its own root, while the device buffer
\* still holds records of the first frame's composite behind it
C10_Witness ==
    /\ frames = 2
    /\ call.op = "render"
    /\ shapes = <<>>
    /\ submitted = <<ShapeC>>
    /\ uploaded = <<ExpectedRecord(ShapeC)>>
    /\ input_buffer[2] = ExpectedRecord(ShapeA)
    /\ input_buffer[3] = ExpectedRecord(ShapeB)


(***************************************************************************)
(* C11.  Within a frame the steps happen in this order: Globals.time and   *)
(* shapeCount are updated, Globals are uploaded, the records are encoded   *)
(* and uploaded, the compute dispatch is submitted, the pending list is    *)
(* cleared, the render pass is submitted, the frame is presented.  No step *)
(* happens unless all the steps before it happened, so the compute         *)
(* submission precedes the render-pass submission of the same frame; the   *)
(* uploaded Globals carry the updated fields; and a frame is rendered only *)
(* right after the return of its update callback.                          *)
(***************************************************************************)
FrameOrder ==
    <<"write_globals", "write_shapes", "submit_compute", "clear",
      "submit_render", "present">>

StepRank(step) == CHOOSE r \in 1..Len(FrameOrder) : FrameOrder[r] = step

C11_FrameOrder ==
    [][call'.op = "render" =>
          /\ pc = "redraw" /\ call.op = "update_return"
          /\ global_uniform_buffer' = globals'
          /\ globals'.shape_amount = Len(shapes)
          /\ \A i \in DOMAIN frame_log' :
                frame_log'[i] \in Range(FrameOrder) =>
                   /\ i = StepRank(frame_log'[i])
                   /\ \A j \in 1..(i - 1) : frame_log'[j] = FrameOrder[j]]_vars

C11_Witness ==
    /\ call.op = "render"
    /\ frame_log = FrameOrder
    /\ uploaded # <<>>
    /\ globals.shape_amount > 0

(***************************************************************************)
(* C12.  In every reachable input state, for every key, every mouse button *)
(* and every modifier: pressed holds iff the item is in the current set,   *)
(* justPressed iff it is in the current set and not in the                 *)
(* previous-snapshot set, released iff it is not in the current set and is *)
(* in the previous-snapshot set.                                           *)
(***************************************************************************)
C12_EdgeQueries ==
    /\ \A k \in KeyCodes :
          /\ key_pressed(keyboard, k) <=> k \in keyboard.pressed
          /\ key_just_pressed(keyboard, k) <=>
                (k \in keyboard.pressed /\ k \notin keyboard.previous_pressed)
          /\ key_released(keyboard, k) <=>
                (k \notin keyboard.pressed /\ k \in keyboard.previous_pressed)
    /\ \A b \in MouseButtons :
          /\ button_pressed(mouse, b) <=> b \in mouse.pressed
          /\ button_just_pressed(mouse, b) <=>
                (b \in mouse.pressed /\ b \notin mouse.previous_pressed)
          /\ button_released(mouse, b) <=>
                (b \notin mouse.pressed /\ b \in mouse.previous_pressed)
    /\ \A m \in KeyModifiers :
          /\ modifier_pressed(keyboard, m) <=> m \in keyboard.pressed_modifiers
          /\ modifier_just_pressed(keyboard, m) <=>
                (m \in keyboard.pressed_modifiers
                 /\ m \notin keyboard.previous_pressed_modifiers)
          /\ modifier_released(keyboard, m) <=>
                (m \notin keyboard.pressed_modifiers
                 /\ m \in keyboard.previous_pressed_modifiers)

\* B was held at the snapshot and has been released, A is newly pressed,
\* the left button is held across a snapshot, Shift has been released.
C12_Witness ==
    /\ key_just_pressed(keyboard, "A")
    /\ key_released(keyboard, "B")
    /\ ~key_pressed(keyboard, "B")
    /\ keyboard.previous_pressed = {"B"}
    /\ button_pressed(mouse, "Left") /\ ~button_just_pressed(mouse, "Left")
    /\ modifier_released(keyboard, "Shift")

(***************************************************************************)
(* Claim vocabulary for the steps of the edge-detection state: the step   *)
(* sets (releases) key k, or is the snapshot of the keys.                  *)
(***************************************************************************)
SetKeyStep(k) == call'.op = "set_key" /\ call'.arg = k

ReleaseKeyStep(k) == call'.op = "release_key" /\ call'.arg = k

SnapshotStep == call'.op = "save_keys"

(***************************************************************************)
(* C13.  A key that was not pressed at the last snapshot and is then set   *)
(* reports pressed, justPressed and not released, and keeps doing so until *)
(* the next snapshot as long as it is not released; after the next         *)
(* snapshot, while the key stays held (also when it is set again or        *)
(* another key is set), it reports pressed and not justPressed.            *)
(***************************************************************************)
C13_JustPressedUntilSnapshot ==
    [][\A k \in KeyCodes :
          /\ (SetKeyStep(k) /\ k \notin keyboard.previous_pressed) =>
                /\ key_pressed(keyboard', k)
                /\ key_just_pressed(keyboard', k)
                /\ ~key_released(keyboard', k)
          /\ (key_just_pressed(keyboard, k) /\ ~SnapshotStep /\ ~ReleaseKeyStep(k)) =>
                /\ key_pressed(keyboard', k)
                /\ key_just_pressed(keyboard', k)
                /\ ~key_released(keyboard', k)
          /\ (key_pressed(keyboard, k) /\ SnapshotStep) =>
                /\ key_pressed(keyboard', k)
                /\ ~key_just_pressed(keyboard', k)
          /\ (key_pressed(keyboard, k) /\ ~key_just_pressed(keyboard, k)
              /\ ~ReleaseKeyStep(k)) =>
                /\ key_pressed(keyboard', k)
                /\ ~key_just_pressed(keyboard', k)]_vars

\* A was set before a snapshot and is still held; after the snapshot B was
\* set.
C13_Witness ==
    /\ call.op = "set_key" /\ call.arg = "B"
    /\ key_pressed(keyboard, "A") /\ ~key_just_pressed(keyboard, "A")
    /\ key_just_pressed(keyboard, "B") /\ ~key_released(keyboard, "B")

(***************************************************************************)
(* C14.  A key that is held is never reported released.  A key that was    *)
(* held at a snapshot and is released after it reports not pressed and     *)
(* released until the following snapshot (as long as it is not set         *)
(* again); after that snapshot it is not reported released, and it is not  *)
(* reported released again before it is released again.                    *)
(***************************************************************************)
C14_ReleasedUntilSnapshot ==
    [][\A k \in KeyCodes :
          /\ key_pressed(keyboard', k) => ~key_released(keyboard', k)
          /\ (ReleaseKeyStep(k) /\ k \in keyboard.previous_pressed) =>
                /\ ~key_pressed(keyboard', k)
                /\ key_released(keyboard', k)
          /\ (key_released(keyboard, k) /\ ~SnapshotStep /\ ~SetKeyStep(k)) =>
                /\ ~key_pressed(keyboard', k)
                /\ key_released(keyboard', k)
          /\ SnapshotStep => ~key_released(keyboard', k)
          /\ (~key_released(keyboard, k) /\ ~ReleaseKeyStep(k)) =>
                ~key_released(keyboard', k)]_vars

\* A was held at a snapshot and has just been released.
C14_Witness ==
    /\ call.op = "release_key" /\ call.arg = "A"
    /\ "A" \in keyboard.previous_pressed
    /\ ~key_pressed(keyboard, "A")
    /\ key_released(keyboard, "A")

(***************************************************************************)
(* C15.  modifiersChanged(mask) makes the current modifier set exactly the *)
(* set of modifiers whose bit is set in mask, whatever the set was before, *)
(* and leaves the previous-modifier snapshot unchanged.  Consequently      *)
(* modifiersChanged({Shift, Ctrl}), snapshot, modifiersChanged({Ctrl})     *)
(* gives released(Shift), pressed(Ctrl), not released(Ctrl) and not        *)
(* justPressed(Shift).                                                     *)
(***************************************************************************)
MaskBit(state, m) ==
    CASE m = "Shift" -> state.shift
      [] m = "Ctrl" -> state.ctrl
      [] m = "Alt" -> state.alt
      [] m = "Logo" -> state.logo

C15_ModifiersReplaced ==
    [][call'.op = "modifiers_changed" =>
          /\ keyboard'.pressed_modifiers =
                {m \in KeyModifiers : MaskBit(call'.arg, m)}
          /\ keyboard'.previous_pressed_modifiers =
                keyboard.previous_pressed_modifiers
          /\ (/\ call'.arg = ModifiersState(FALSE, TRUE, FALSE, FALSE)
              /\ keyboard.pressed_modifiers = {"Shift", "Ctrl"}
              /\ keyboard.previous_pressed_modifiers = {"Shift", "Ctrl"}) =>
                /\ modifier_released(keyboard', "Shift")
                /\ modifier_pressed(keyboard', "Ctrl")
                /\ ~modifier_released(keyboard', "Ctrl")
                /\ ~modifier_just_pressed(keyboard', "Shift")]_vars

\* Shift and Ctrl were down at the snapshot; the mask {Ctrl} has arrived.
C15_Witness ==
    /\ call.op = "modifiers_changed"
    /\ call.arg = ModifiersState(FALSE, TRUE, FALSE, FALSE)
    /\ keyboard.previous_pressed_modifiers = {"Shift", "Ctrl"}
    /\ keyboard.pressed_modifiers = {"Ctrl"}
    /\ modifier_released(keyboard, "Shift")

RECURSIVE SumDeltas(_)
SumDeltas(deltas) ==
    IF deltas = <<>> THEN <<0, 0>>
    ELSE LET rest == SumDeltas(Tail(deltas))
         IN  <<Head(deltas)[1] + rest[1], Head(deltas)[2] + rest[2]>>

C17_DeltasAccumulate ==
    pc = "update" =>
        /\ mouse_delta(mouse) = SumDeltas(hist.motion)
        /\ scroll_delta(mouse) = SumDeltas(hist.wheel)

C19_OnScreenFlag ==
    [][/\ call'.op = "CursorMoved" =>
             on_screen(mouse') =
                (/\ 0 <= call'.arg[1] /\ call'.arg[1] < render.window_size[1]
                 /\ 0 <= call'.arg[2] /\ call'.arg[2] < render.window_size[2])
       /\ call'.op = "CursorLeft" => ~on_screen(mouse')
       /\ call'.op \notin {"CursorMoved", "CursorLeft"} =>
             on_screen(mouse') = on_screen(mouse)]_vars

\* The window was resized to 640 x 480 and the cursor then moved to
\* x = 640: inside the original window, one pixel right of the new one.
C19_Witness ==
    /\ call.op = "CursorMoved" /\ call.arg = <<640, 100>>
    /\ render.window_size = <<640, 480>>
    /\ mouse.pos = <<640, 100>>
    /\ ~on_screen(mouse)

(***************************************************************************)
(* C20.  A window resize to non-zero dimensions at once makes the stored   *)
(* window size and the surface configuration the new dimensions and        *)
(* configures the surface with them, and leaves the resolution of the      *)
(* compute output and Globals.screenDim as they were; every frame's        *)
(* compute dispatch keeps the fixed size WIDTH x HEIGHT, and the           *)
(* resolution and screenDim are WIDTH x HEIGHT throughout.                 *)
(***************************************************************************)
C20_ResizeKeepsComputeSize ==
    [][/\ (/\ call'.op \in {"Resized", "ScaleFactorChanged"}
           /\ call'.arg[1] # 0 /\ call'.arg[2] # 0) =>
             /\ render'.window_size = call'.arg
             /\ render'.surface_config = call'.arg
             /\ render'.configured = call'.arg
             /\ render'.resolution = render.resolution
             /\ render'.dispatched = render.dispatched
             /\ globals' = globals
       /\ (call'.op = "render" /\ pc' # "panicked") =>
             render'.dispatched = <<WIDTH, HEIGHT, 1>>
       /\ render'.resolution = <<WIDTH, HEIGHT>>
       /\ globals'.screen_dim = <<WIDTH, HEIGHT>>]_vars

\* A frame rendered after the window was resized to 640 x 480.
C20_Witness ==
    /\ call.op = "render"
    /\ render.window_size = <<640, 480>>
    /\ render.surface_config = <<640, 480>>
    /\ render.configured = <<640, 480>>
    /\ render.dispatched = <<WIDTH, HEIGHT, 1>>
    /\ render.resolution = <<WIDTH, HEIGHT>>
    /\ globals.screen_dim = <<WIDTH, HEIGHT>>

(***************************************************************************)
(* C21.  When acquiring the surface texture fails with a lost or with an   *)
(* outdated surface, the event loop configures the surface again with the  *)
(* last known window size, does not set the exit flag, and goes on to the  *)
(* next frame.                                                             *)
(***************************************************************************)
C21_LostOrOutdatedReconfigures ==
    [][(/\ call'.op = "render"
        /\ call'.arg \in {"Lost", "Outdated"}
        /\ pc' # "panicked") =>
          /\ "configure" \in Range(frame_log')
          /\ render'.configured = render.window_size
          /\ render'.window_size = render.window_size
          /\ control_flow' = control_flow
          /\ control_flow = "Poll" => pc' = "events"]_vars

(***************************************************************************)
(* C22.  The exit flag is set by exactly three things: a close-requested   *)
(* event, the update callback returning true, and an out-of-memory surface *)
(* error; each of them sets it, nothing else does, and once set it is      *)
(* never cleared.  A frame that completes with the flag set is the last    *)
(* one (the loop terminates and takes no further step); a frame that       *)
(* completes with the flag clear is followed by the next iteration.        *)
(***************************************************************************)
C22_ExitFlag ==
    [][/\ control_flow = "Exit" => control_flow' = "Exit"
       /\ (control_flow = "Poll" /\ control_flow' = "Exit") =>
             \/ call'.op = "CloseRequested"
             \/ call'.op = "update_return" /\ call'.arg = TRUE
             \/ call'.op = "render" /\ call'.arg = "OutOfMemory"
       /\ call'.op = "CloseRequested" => control_flow' = "Exit"
       /\ (call'.op = "update_return" /\ call'.arg = TRUE) =>
             control_flow' = "Exit"
       /\ (call'.op = "render" /\ pc' # "panicked") =>
             /\ call'.arg = "OutOfMemory" => control_flow' = "Exit"
             /\ pc' = IF control_flow' = "Exit" THEN "exit" ELSE "events"
       /\ pc # "exit"]_vars

\* The loop has ended in its second frame on an out-of-memory error, after
\* a first frame that went on with the flag clear.
C22_Witness ==
    /\ pc = "exit" /\ control_flow = "Exit"
    /\ call.op = "render" /\ call.arg = "OutOfMemory"
    /\ frames = 2

(***************************************************************************)
(* C23.  The record stream determines the submitted scene.  The decoder    *)
(* reads the records left to right; an opcode 0-2 is a composite followed  *)
(* by its two subtrees, an opcode 6-8 is a primitive with no subtree.      *)
(* Decoding the encoding of the pending roots consumes the whole stream    *)
(* and gives back exactly the list of roots, so two different lists never  *)
(* have the same encoding.                                                 *)
(***************************************************************************)
DecodeFailed == [ok |-> FALSE, shape |-> "-", next |-> 0]

RECURSIVE DecodeTree(_, _)
DecodeTree(stream, i) ==
    IF i > Len(stream) THEN DecodeFailed
    ELSE LET rec == stream[i]
         IN  CASE rec.id \in {0, 1, 2} ->
                     LET l == DecodeTree(stream, i + 1)
                         r == IF l.ok THEN DecodeTree(stream, l.next)
                              ELSE DecodeFailed
                         kind == CHOOSE k \in CompositeKinds : Opcode(k) = rec.id
                     IN  IF l.ok /\ r.ok
                         THEN [ok |-> TRUE, next |-> r.next,
                               shape |-> Composite(kind, l.shape, r.shape)]
                         ELSE DecodeFailed
               [] rec.id = 6 ->
                     [ok |-> TRUE, next |-> i + 1, shape |-> Sphere(rec.pos, rec.f1)]
               [] rec.id = 7 ->
                     [ok |-> TRUE, next |-> i + 1, shape |-> BoxExact(rec.pos, rec.v1)]
               [] rec.id = 8 ->
                     [ok |-> TRUE, next |-> i + 1, shape |-> Plane(rec.pos, rec.v1)]
               [] OTHER -> DecodeFailed

RECURSIVE DecodeRoots(_, _)
DecodeRoots(stream, i) ==
    IF i > Len(stream) THEN [ok |-> TRUE, roots |-> <<>>]
    ELSE LET t == DecodeTree(stream, i)
             rest == IF t.ok THEN DecodeRoots(stream, t.next)
                     ELSE [ok |-> FALSE, roots |-> <<>>]
         IN  IF t.ok /\ rest.ok
             THEN [ok |-> TRUE, roots |-> <<t.shape>> \o rest.roots]
             ELSE [ok |-> FALSE, roots |-> <<>>]

C23_StreamDeterminesScene ==
    [][call'.op = "render" =>
          DecodeRoots(uploaded', 1) = [ok |-> TRUE, roots |-> shapes]]_vars

\* two roots, a composite of two primitives and a primitive, were encoded
\* into four records and are recovered from them
C23_Witness ==
    /\ call.op = "render"
    /\ Len(submitted) = 2
    /\ node_count(submitted[1]) = 3
    /\ Len(uploaded) = 4
    /\ DecodeRoots(uploaded, 1) = [ok |-> TRUE, roots |-> submitted]

(***************************************************************************)
(* C24.  Between two snapshots the values of pressed, justPressed and      *)
(* released of a key (button) depend only on the previous-snapshot set and *)
(* on the last call made for it: after set_key(k), k is pressed, is        *)
(* justPressed iff it is not in the previous snapshot, and is not          *)
(* released; after release_key(k), k is not pressed, not justPressed, and  *)
(* is released iff it is in the previous snapshot, whatever was called     *)
(* before; a call for one key does not change the values of another.  So   *)
(* a key set and released again before the snapshot shows neither          *)
(* justPressed nor released, and repeating a set or a release changes      *)
(* nothing.  The same holds for press_button and release_button.           *)
(***************************************************************************)
C24_LastCallDecides ==
    [][/\ \A k \in KeyCodes :
             /\ SetKeyStep(k) =>
                   /\ key_pressed(keyboard', k)
                   /\ key_just_pressed(keyboard', k) <=>
                         k \notin keyboard.previous_pressed
                   /\ ~key_released(keyboard', k)
                   /\ set_key(keyboard', k) = keyboard'
             /\ ReleaseKeyStep(k) =>
                   /\ ~key_pressed(keyboard', k)
                   /\ ~key_just_pressed(keyboard', k)
                   /\ key_released(keyboard', k) <=>
                         k \in keyboard.previous_pressed
                   /\ release_key(keyboard', k) = keyboard'
             /\ (call'.op \in {"set_key", "release_key"} /\ call'.arg # k) =>
                   /\ key_pressed(keyboard', k) = key_pressed(keyboard, k)
                   /\ key_just_pressed(keyboard', k) = key_just_pressed(keyboard, k)
                   /\ key_released(keyboard', k) = key_released(keyboard, k)
       /\ \A b \in MouseButtons :
             /\ (call'.op = "press_button" /\ call'.arg = b) =>
                   /\ button_pressed(mouse', b)
                   /\ button_just_pressed(mouse', b) <=>
                         b \notin mouse.previous_pressed
                   /\ ~button_released(mouse', b)
                   /\ press_button(mouse', b) = mouse'
             /\ (call'.op = "release_button" /\ call'.arg = b) =>
                   /\ ~button_pressed(mouse', b)
                   /\ ~button_just_pressed(mouse', b)
                   /\ button_released(mouse', b) <=>
                         b \in mouse.previous_pressed
                   /\ release_button(mouse', b) = mouse'
             /\ (call'.op \in {"press_button", "release_button"} /\ call'.arg # b) =>
                   /\ button_pressed(mouse', b) = button_pressed(mouse, b)
                   /\ button_just_pressed(mouse', b) = button_just_pressed(mouse, b)
                   /\ button_released(mouse', b) = button_released(mouse, b)]_vars

\* The left button, not down at the snapshot, was pressed and has just been
\* released again: neither edge is reported.
C24_Witness ==
    /\ call.op = "release_button" /\ call.arg = "Left"
    /\ "Left" \notin mouse.previous_pressed
    /\ ~button_pressed(mouse, "Left")
    /\ ~button_just_pressed(mouse, "Left")
    /\ ~button_released(mouse, "Left")
    /\ "Right" \in mouse.previous_pressed

(***************************************************************************)
(* C25.  The storage upload of a frame overwrites exactly the first count  *)
(* records of the device-side shape array with the frame's encoded records *)
(* and leaves every record at a higher index as it was, so records of      *)
(* earlier frames stay in the buffer beyond the current count.             *)
(***************************************************************************)
C25_UploadOverwritesPrefix ==
    [][(call'.op = "render" /\ pc' # "panicked") =>
          /\ Len(input_buffer') = MAX_SHAPE_AMOUNT
          /\ \A i \in 1..MAX_SHAPE_AMOUNT :
                input_buffer'[i] = IF i <= Len(uploaded') THEN uploaded'[i]
                                   ELSE input_buffer[i]]_vars

\* The second frame uploaded one record; the second and third record of the
\* buffer are still those of the first frame's three-record scene.
C25_Witness ==
    /\ call.op = "render" /\ frames = 2
    /\ Len(uploaded) = 1
    /\ input_buffer[1] = uploaded[1]
    /\ input_buffer[2] = add_record(ShapeA)
    /\ input_buffer[3] = add_record(ShapeB)

(***************************************************************************)
(* C26.  The three snapshots are independent and the mutators never touch  *)
(* a snapshot: save_keys changes only the previous key set, save_modifiers *)
(* only the previous modifier set, save_buttons only the previous button   *)
(* set (each to the current set of its own kind); set_key and release_key  *)
(* change only the current key set, modifiers_changed only the current     *)
(* modifier set, press_button and release_button only the current button   *)
(* set.                                                                    *)
(***************************************************************************)
C26_SnapshotsIndependent ==
    [][/\ call'.op = "save_keys" =>
             /\ keyboard' = [keyboard EXCEPT !.previous_pressed = keyboard.pressed]
             /\ mouse' = mouse
       /\ call'.op = "save_modifiers" =>
             /\ keyboard' = [keyboard EXCEPT !.previous_pressed_modifiers =
                                                keyboard.pressed_modifiers]
             /\ mouse' = mouse
       /\ call'.op = "save_buttons" =>
             /\ mouse' = [mouse EXCEPT !.previous_pressed = mouse.pressed]
             /\ keyboard' = keyboard
       /\ call'.op \in {"set_key", "release_key"} =>
             /\ keyboard' = [keyboard EXCEPT !.pressed = keyboard'.pressed]
             /\ mouse' = mouse
       /\ call'.op = "modifiers_changed" =>
             /\ keyboard' = [keyboard EXCEPT !.pressed_modifiers =
                                                keyboard'.pressed_modifiers]
             /\ mouse' = mouse
       /\ call'.op \in {"press_button", "release_button"} =>
             /\ mouse' = [mouse EXCEPT !.pressed = mouse'.pressed]
             /\ keyboard' = keyboard]_vars

\* The modifiers were just snapshotted while the key set and the button set
\* both differ from their own snapshots.
C26_Witness ==
    /\ call.op = "save_modifiers"
    /\ keyboard.pressed_modifiers = {"Shift", "Ctrl"}
    /\ keyboard.previous_pressed_modifiers = {"Shift", "Ctrl"}
    /\ keyboard.pressed = {"A"} /\ keyboard.previous_pressed = {}
    /\ mouse.pressed = {"Left"} /\ mouse.previous_pressed = {}

(***************************************************************************)
(* C27.  The resize command rejects zero screen dimensions: with width = 0 *)
(* or with height = 0 (either one alone) it fails its precondition and     *)
(* does not store the dimensions in Globals.screenDim; with both non-zero  *)
(* it sets Globals.screenDim to (width, height).                           *)
(***************************************************************************)
C27_ResizeRejectsZero ==
    [][call'.op = "resize" =>
          IF call'.arg[1] = 0 \/ call'.arg[2] = 0
          THEN pc' = "panicked" /\ globals'.screen_dim = globals.screen_dim
          ELSE pc' = pc /\ globals'.screen_dim = call'.arg]_vars

(***************************************************************************)
(* C28.  mouse_pos_pixel always returns a pixel inside the render          *)
(* resolution: x < resolution width and y < resolution height, also when   *)
(* the stored cursor position is at or beyond the window size.             *)
(***************************************************************************)
C28_PixelInsideResolution ==
    /\ mouse_pos_pixel(mouse, render)[1] < render.resolution[1]
    /\ mouse_pos_pixel(mouse, render)[2] < render.resolution[2]

(***************************************************************************)
(* C29.  In every reachable input state and for every key, button and      *)
(* modifier: justPressed and released are never both true, justPressed     *)
(* implies pressed, released implies not pressed.  Right after a snapshot  *)
(* justPressed and released are false for every item of the snapshotted    *)
(* kind, and taking the same snapshot again changes nothing.               *)
(***************************************************************************)
C29_EdgeInvariants ==
    [][/\ \A k \in KeyCodes :
             /\ ~(key_just_pressed(keyboard', k) /\ key_released(keyboard', k))
             /\ key_just_pressed(keyboard', k) => key_pressed(keyboard', k)
             /\ key_released(keyboard', k) => ~key_pressed(keyboard', k)
             /\ call'.op = "save_keys" =>
                   ~key_just_pressed(keyboard', k) /\ ~key_released(keyboard', k)
       /\ \A m \in KeyModifiers :
             /\ ~(modifier_just_pressed(keyboard', m)
                  /\ modifier_released(keyboard', m))
             /\ modifier_just_pressed(keyboard', m) => modifier_pressed(keyboard', m)
             /\ modifier_released(keyboard', m) => ~modifier_pressed(keyboard', m)
             /\ call'.op = "save_modifiers" =>
                   /\ ~modifier_just_pressed(keyboard', m)
                   /\ ~modifier_released(keyboard', m)
       /\ \A b \in MouseButtons :
             /\ ~(button_just_pressed(mouse', b) /\ button_released(mouse', b))
             /\ button_just_pressed(mouse', b) => button_pressed(mouse', b)
             /\ button_released(mouse', b) => ~button_pressed(mouse', b)
             /\ call'.op = "save_buttons" =>
                   ~button_just_pressed(mouse', b) /\ ~button_released(mouse', b)
       /\ call'.op = "save_keys" => save_keys(keyboard') = keyboard'
       /\ call'.op = "save_modifiers" => save_modifiers(keyboard') = keyboard'
       /\ call'.op = "save_buttons" => save_buttons(mouse') = mouse']_vars

\* The keys were just snapshotted with A held: A is pressed with no edge,
\* while a modifier still shows its released edge and a button its
\* just-pressed edge.
C29_Witness ==
    /\ call.op = "save_keys"
    /\ key_pressed(keyboard, "A")
    /\ ~key_just_pressed(keyboard, "A") /\ ~key_released(keyboard, "A")
    /\ modifier_released(keyboard, "Ctrl")
    /\ button_just_pressed(mouse, "Right")

(***************************************************************************)
(* C30.  The pending root list is cleared also when the frame fails: when  *)
(* render returns a surface error (lost, outdated, timeout, out of         *)
(* memory), the Globals and the records of that frame have been uploaded,  *)
(* the compute dispatch submitted and the pending list emptied, and no     *)
(* render pass was submitted; so the update of the frame after a failed    *)
(* one starts with an empty list.                                          *)
(***************************************************************************)
C30_ClearedOnFailedFrame ==
    [][/\ (call'.op = "render" /\ call'.arg # "Ok" /\ pc' # "panicked") =>
             /\ shapes' = <<>>
             /\ uploaded' = shapes_to_gpu(shapes)
             /\ global_uniform_buffer' = globals'
             /\ Len(frame_log') >= Len(execute_raymarch_steps)
             /\ \A i \in DOMAIN execute_raymarch_steps :
                   frame_log'[i] = execute_raymarch_steps[i]
             /\ "submit_render" \notin Range(frame_log')
             /\ "present" \notin Range(frame_log')
       /\ (call.op = "render" /\ call.arg # "Ok"
           /\ call'.op = "MainEventsCleared") =>
             shapes' = <<>> /\ submitted' = <<>>]_vars

\* A frame with a three-record scene failed with a timeout: the records
\* were uploaded and the list is empty.
C30_Witness ==
    /\ call.op = "render" /\ call.arg = "Timeout"
    /\ pc = "events"
    /\ Len(uploaded) = 3
    /\ shapes = <<>>
    /\ frame_log = execute_raymarch_steps

(***************************************************************************)
(* C31.  A resize request whose width or height is 0 is ignored entirely:  *)
(* the stored window size and the surface configuration keep their         *)
(* previous values and the surface keeps the configuration it had.  So     *)
(* before and after every step, whatever resizes came before, the stored   *)
(* window size and the width and height of the surface configuration are   *)
(* equal to each other and both non-zero.                                  *)
(***************************************************************************)
C31_ZeroResizeIgnored ==
    [][/\ (/\ call'.op \in {"Resized", "ScaleFactorChanged"}
           /\ (call'.arg[1] = 0 \/ call'.arg[2] = 0)) =>
             /\ render'.window_size = render.window_size
             /\ render'.surface_config = render.surface_config
             /\ render'.configured = render.configured
       /\ render.window_size = render.surface_config
       /\ render.window_size[1] # 0 /\ render.window_size[2] # 0
       /\ render'.window_size = render'.surface_config
       /\ render'.window_size[1] # 0 /\ render'.window_size[2] # 0]_vars

\* A resize to 640 x 0 was requested after the window had been resized to
\* 1920 x 1080, and the stored size, the surface configuration and the
\* configuration of the surface are still 1920 x 1080.
C31_Witness ==
    /\ call.op \in {"Resized", "ScaleFactorChanged"}
    /\ call.arg = <<640, 0>>
    /\ render.window_size = <<1920, 1080>>
    /\ render.surface_config = <<1920, 1080>>
    /\ render.configured = <<1920, 1080>>

====
